---- MODULE Spec2Model ----
(***************************************************************************)
(* Model of the two notification tools of open-webui-utils:                *)
(*   src/tools/messaging/discord_webhook.py     (Tools.send_message)       *)
(*   src/tools/messaging/telegram_symphony.py   (Tools.send_telegram_...)  *)
(* Both classes share one lifecycle (Valves, __init__, _ensure_session,    *)
(* close, __aenter__, __aexit__) and differ in the request they build and  *)
(* in how they read the response.  One Tools instance is modelled; the     *)
(* variable platform says which of the two classes it is.                  *)
(*                                                                         *)
(* Coroutines run on one event loop: a coroutine runs without interruption *)
(* up to its next real suspension.  _ensure_session has no suspension      *)
(* point, so a send is two steps: SendStart (ensure, truncate, build the   *)
(* request, hand it to session.post) and SendFinish (the round trip is     *)
(* over: a response, or an exception, reaches the coroutine).              *)
(***************************************************************************)
EXTENDS Integers, Sequences, FiniteSets, TLC

\* ------------------------------------------------------------------ bounds
\* Number of coroutines that may be inside a send at the same time.
NumTasks == 2
\* Number of aiohttp.ClientSession objects that can come to exist in a run.
MaxSessions == 3

\* ------------------------------------------------------- program constants
DiscordLimit == 2000
TelegramLimit == 4096
DiscordOkStatus == 204
TelegramOkStatus == 200

Tasks == 1..NumTasks
SessionIds == 1..MaxSessions
\* self.session = None
None == 0

VARIABLES
    platform,   \* "discord" | "telegram": which Tools class this instance is
    env,        \* the Field defaults, read from os.environ when the class is defined
    inst,       \* "none" (not constructed) | "ready" | "failed" (__init__ raised)
    valves,     \* self.valves
    session,    \* self.session: None or the id of a ClientSession
    ext,        \* self._session_externally_managed
    sessions,   \* every ClientSession: "unborn" | "open" | "closed"
    closes,     \* per ClientSession, the number of session.close() calls made by Tools
    tasks,      \* per coroutine, where it is in its send
    last,       \* the send that returned last: what it got and what it returned
    guard,      \* "out" | "in": whether the caller is inside `async with tool`
    exc         \* the exception that escaped the last call on the instance

vars == <<platform, env, inst, valves, session, ext, sessions, closes, tasks,
          last, guard, exc>>

\* ------------------------------------------------------------ configuration
\* Strings are sequences of characters.
Digits == {"7"}
EmptyStr == << >>
StdUrl == <<"https://discord.com/api/webhooks/", "1">>
Token == <<"t", "o", "k">>
DiscordPrefix == "https://discord.com/api/webhooks/"

\* What the environment may hold (unset reads as "").
DiscordEnvs == { [url |-> u, token |-> EmptyStr, chat |-> EmptyStr] :
                   u \in {EmptyStr, StdUrl} }
TelegramEnvs == { [url |-> EmptyStr, token |-> Token, chat |-> c] :
                    c \in {<<"-", "7">>, <<"7", "x">>} }
                \cup { [url |-> EmptyStr, token |-> EmptyStr, chat |-> <<"7">>] }

\* int(v) of Python on the strings above: an optional sign, then digits only.
IsIntLiteral(v) ==
    LET body == IF Len(v) > 0 /\ v[1] \in {"-", "+"} THEN Tail(v) ELSE v
    IN  /\ Len(body) > 0
        /\ \A i \in 1..Len(body) : body[i] \in Digits

\* A validator returns the value or raises ValueError.
Ok(v) == [ok |-> TRUE, v |-> v]
Raise == [ok |-> FALSE, v |-> EmptyStr]

validate_webhook_url(v) == IF v = EmptyStr THEN Raise ELSE Ok(v)

validate_bot_token(v) == IF v = EmptyStr THEN Raise ELSE Ok(v)

validate_chat_id(v) ==
    IF v = EmptyStr THEN Raise
    ELSE IF ~IsIntLiteral(v) THEN Raise
    ELSE Ok(v)

\* The warning of validate_webhook_url: logged, never fatal.
WarnsOddUrl(v) == v # EmptyStr /\ (Len(v) = 0 \/ v[1] # DiscordPrefix)

\* A keyword argument that was not passed.
Missing == <<"<missing>">>
NoArgs == [url |-> Missing, token |-> Missing, chat |-> Missing]

\* pydantic's handling of one field: @validator(name) is declared without
\* always=True, so the validator runs on a value that was passed (validated is
\* its result) and does not run on the default.
FieldValue(arg, default, validated) ==
    IF arg = Missing THEN Ok(default) ELSE validated

\* Valves(**args): the model instance, or a validation error.
Valves(p, args, defaults) ==
    LET u == FieldValue(args.url, defaults.url, validate_webhook_url(args.url))
        t == FieldValue(args.token, defaults.token, validate_bot_token(args.token))
        c == FieldValue(args.chat, defaults.chat, validate_chat_id(args.chat))
    IN  IF p = "discord"
        THEN [ok |-> u.ok, v |-> [url |-> u.v, token |-> EmptyStr, chat |-> EmptyStr]]
        ELSE [ok |-> t.ok /\ c.ok,
              v |-> [url |-> EmptyStr, token |-> t.v, chat |-> c.v]]

NoValves == [url |-> EmptyStr, token |-> EmptyStr, chat |-> EmptyStr]

\* The configuration the documentation calls valid.
ConfigValid(p, cfg) ==
    IF p = "discord" THEN cfg.url # EmptyStr
    ELSE cfg.token # EmptyStr /\ cfg.chat # EmptyStr /\ IsIntLiteral(cfg.chat)


\* ---------------------------------------------------------------- sessions
\* session.closed, for self.session = s.
Closed(s, ss) == ss[s] = "closed"

\* `self.session is None or self.session.closed` is false.
Usable(s, ss) == s # None /\ ~Closed(s, ss)

\* aiohttp.ClientSession(): a session object that did not exist before.
HasUnborn(ss) == \E i \in SessionIds : ss[i] = "unborn"
NewId(ss) == CHOOSE i \in SessionIds :
                 ss[i] = "unborn" /\ \A j \in SessionIds : ss[j] = "unborn" => i <= j

\* _ensure_session setting _session_externally_managed = True on the session
\* it makes.
ensure_session_marks_external(s, e, ss) ==
    IF s = None \/ Closed(s, ss)
    THEN IF e
         THEN [raised |-> TRUE, session |-> s, ext |-> e, sessions |-> ss]
         ELSE [raised |-> FALSE, session |-> NewId(ss), ext |-> TRUE,
               sessions |-> [ss EXCEPT ![NewId(ss)] = "open"]]
    ELSE [raised |-> FALSE, session |-> s, ext |-> e, sessions |-> ss]

\* _ensure_session without its test of self.session: an instance that owns its
\* session gets a new one on every call.
ensure_session_always_new(s, e, ss) ==
    IF e
    THEN [raised |-> s = None \/ Closed(s, ss), session |-> s, ext |-> e,
          sessions |-> ss]
    ELSE [raised |-> FALSE, session |-> NewId(ss), ext |-> FALSE,
          sessions |-> [ss EXCEPT ![NewId(ss)] = "open"]]

\* _ensure_session without its check of _session_externally_managed: it
\* replaces a closed session whoever owns it.
ensure_session_any_owner(s, e, ss) ==
    IF s = None \/ Closed(s, ss)
    THEN [raised |-> FALSE, session |-> NewId(ss), ext |-> FALSE,
          sessions |-> [ss EXCEPT ![NewId(ss)] = "open"]]
    ELSE [raised |-> FALSE, session |-> s, ext |-> e, sessions |-> ss]

\* Tools._ensure_session on self = (s, e), with the sessions ss: whether it
\* raises RuntimeError, and self.session, self._session_externally_managed and
\* the sessions afterwards.
ensure_session(s, e, ss) ==
    IF s = None \/ Closed(s, ss)
    THEN IF e
         THEN [raised |-> TRUE, session |-> s, ext |-> e, sessions |-> ss]
         ELSE [raised |-> FALSE, session |-> NewId(ss), ext |-> FALSE,
               sessions |-> [ss EXCEPT ![NewId(ss)] = "open"]]
    ELSE [raised |-> FALSE, session |-> s, ext |-> e, sessions |-> ss]

\* The model can run _ensure_session: it needs no new session, or one is left.
CanEnsure == Usable(session, sessions) \/ ext \/ HasUnborn(sessions)

\* close without its check of _session_externally_managed.
close_any_owner(s, e, ss, cl) ==
    IF s # None /\ ~Closed(s, ss)
    THEN [sessions |-> [ss EXCEPT ![s] = "closed"],
          closes |-> [cl EXCEPT ![s] = @ + 1]]
    ELSE [sessions |-> ss, closes |-> cl]

\* close with the ownership test the wrong way round.
close_only_supplied(s, e, ss, cl) ==
    IF e /\ s # None /\ ~Closed(s, ss)
    THEN [sessions |-> [ss EXCEPT ![s] = "closed"],
          closes |-> [cl EXCEPT ![s] = @ + 1]]
    ELSE [sessions |-> ss, closes |-> cl]

\* close without its check of session.closed.
close_unchecked(s, e, ss, cl) ==
    IF ~e /\ s # None
    THEN [sessions |-> [ss EXCEPT ![s] = "closed"],
          closes |-> [cl EXCEPT ![s] = @ + 1]]
    ELSE [sessions |-> ss, closes |-> cl]

\* Tools.close on self = (s, e): the sessions and the close() calls afterwards.
close(s, e, ss, cl) ==
    IF ~e /\ s # None /\ ~Closed(s, ss)
    THEN [sessions |-> [ss EXCEPT ![s] = "closed"],
          closes |-> [cl EXCEPT ![s] = @ + 1]]
    ELSE [sessions |-> ss, closes |-> cl]

\* ------------------------------------------------------------------ sends
\* The length check with the slice one character short.
Truncate_short_slice(p, m) ==
    LET limit == IF p = "discord" THEN DiscordLimit ELSE TelegramLimit
    IN  IF Len(m) > limit THEN SubSeq(m, 1, limit - 1) ELSE m

\* message_content after the length check of the send.
Truncate(p, m) ==
    LET limit == IF p = "discord" THEN DiscordLimit ELSE TelegramLimit
    IN  IF Len(m) > limit THEN SubSeq(m, 1, limit) ELSE m

\* The url and the json argument of session.post.
BuildRequest(p, cfg, content) ==
    IF p = "discord"
    THEN [url |-> cfg.url, json |-> [content |-> content]]
    ELSE [url |-> <<"https://api.telegram.org/bot">> \o cfg.token \o <<"/sendMessage">>,
          json |-> [chat_id |-> cfg.chat, text |-> content]]

\* What the round trip of one request can end in: a response with a status and
\* a body, aiohttp.ClientError, or another exception (a timeout, "Session is
\* closed").  A body is "text" (any readable text), "ok_true" ({"ok": true}),
\* "ok_false" ({"ok": false, "description": ..}), "no_ok" (an object without
\* ok), "not_json" (json() raises) or "unreadable" (text() and json() raise
\* ClientError: the connection broke while the body was read).
Statuses(p) == IF p = "discord" THEN {200, 204, 400, 500} ELSE {200, 204, 403}
Bodies(p) ==
    IF p = "discord" THEN {"text", "unreadable"}
    ELSE {"ok_true", "ok_false", "no_ok", "not_json", "unreadable"}
Outcomes(p) ==
    [kind : {"response"}, status : Statuses(p), body : Bodies(p)]
    \cup { [kind |-> k, status |-> 0, body |-> "none"] : k \in {"ClientError", "Exception"} }

Returns(b) == [raised |-> "none", result |-> b]
Throws(e) == [raised |-> e, result |-> FALSE]

\* send_message taking every 2xx status for a success.
DiscordResponse_any_2xx(o) ==
    IF o.kind # "response" THEN Throws(o.kind)
    ELSE IF o.status >= 200 /\ o.status < 300 THEN Returns(TRUE)
    ELSE IF o.body = "unreadable" THEN Throws("ClientError")
    ELSE Returns(FALSE)

\* The body of `async with self.session.post(..) as response` of send_message.
DiscordResponse(o) ==
    IF o.kind # "response" THEN Throws(o.kind)
    ELSE IF o.status = DiscordOkStatus THEN Returns(TRUE)
    ELSE IF o.body = "unreadable" THEN Throws("ClientError")
    ELSE Returns(FALSE)

\* response_json.get("ok") for a body that json() parsed.
OkField(body) ==
    IF body = "ok_true" THEN "true"
    ELSE IF body = "ok_false" THEN "false"
    ELSE "null"

\* Python's truth value of it.
Truthy(v) == v = "true"

\* send_telegram_message without the test of the ok field.
TelegramResponse_status_only(o) ==
    IF o.kind # "response" THEN Throws(o.kind)
    ELSE IF o.status = TelegramOkStatus
         THEN IF o.body = "unreadable" THEN Throws("ClientError")
              ELSE IF o.body = "not_json" THEN Throws("Exception")
              ELSE Returns(TRUE)
    ELSE IF o.body = "unreadable" THEN Throws("ClientError")
    ELSE Returns(FALSE)

\* The same of send_telegram_message.
TelegramResponse(o) ==
    IF o.kind # "response" THEN Throws(o.kind)
    ELSE IF o.status = TelegramOkStatus
         THEN IF o.body = "unreadable" THEN Throws("ClientError")
              ELSE IF o.body = "not_json" THEN Throws("Exception")
              ELSE IF Truthy(OkField(o.body)) THEN Returns(TRUE)
              ELSE Returns(FALSE)
    ELSE IF o.body = "unreadable" THEN Throws("ClientError")
    ELSE Returns(FALSE)

\* The send with `except aiohttp.ClientError` alone.
Handle_client_error_only(e) ==
    IF e = "ClientError" THEN Returns(FALSE) ELSE Throws(e)

\* The except clauses of the send: what the send does with an exception raised
\* in its try block.  RuntimeError is an Exception.
Handle(e) ==
    IF e = "ClientError" THEN Returns(FALSE)
    ELSE IF e \in {"Exception", "RuntimeError"} THEN Returns(FALSE)
    ELSE Throws(e)

\* The block outside the try statement.
Try_outside(r) == r

\* The try statement around a block that ended as r.
Try(r) == IF r.raised = "none" THEN r ELSE Handle(r.raised)

\* ------------------------------------------------------------------ state
\* A coroutine: posts counts the session.post calls of its current send.
IdleTask == [pc |-> "idle", sess |-> None, msg |-> << >>, req |-> << >>, posts |-> 0]
\* The send that returned last; failed_before says whether a send that returned
\* earlier on this instance returned False.
NoSend == [kind |-> "none", status |-> 0, body |-> "none", result |-> FALSE,
           raised |-> "none", posts |-> 0, failed_before |-> FALSE]

\* failed_before of the send that returns next.
FailedBefore(l) == l.failed_before \/ (l.kind # "none" /\ l.result = FALSE)

\* The module is imported: the defaults are read from the environment.  A caller
\* that will supply its own session has created it (session 1), open or closed.
Init ==
    /\ platform \in {"discord", "telegram"}
    /\ env \in (IF platform = "discord" THEN DiscordEnvs ELSE TelegramEnvs)
    /\ inst = "none"
    /\ valves = NoValves
    /\ session = None
    /\ ext = FALSE
    /\ \E s \in {"unborn", "open", "closed"} :
          sessions = [i \in SessionIds |-> IF i = 1 THEN s ELSE "unborn"]
    /\ closes = [i \in SessionIds |-> 0]
    /\ tasks = [t \in Tasks |-> IdleTask]
    /\ last = NoSend
    /\ guard = "out"
    /\ exc = "none"

\* Tools.__init__(session): the caller passes the session it created, if any.
Construct ==
    /\ inst = "none"
    /\ LET supplied == IF sessions[1] = "unborn" THEN None ELSE 1
           made == Valves(platform, NoArgs, env)
       IN  IF ~made.ok
           THEN /\ inst' = "failed"
                /\ exc' = "ValueError"
                /\ UNCHANGED <<valves, session, ext>>
           ELSE /\ inst' = "ready"
                /\ exc' = "none"
                /\ valves' = made.v
                /\ session' = supplied
                /\ ext' = (supplied # None)
    /\ UNCHANGED <<platform, env, sessions, closes, tasks, last, guard>>

\* A direct call of _ensure_session.
EnsureSession ==
    /\ inst = "ready"
    /\ CanEnsure
    /\ LET r == ensure_session(session, ext, sessions)
       IN  /\ session' = r.session
           /\ ext' = r.ext
           /\ sessions' = r.sessions
           /\ exc' = IF r.raised THEN "RuntimeError" ELSE "none"
    /\ UNCHANGED <<platform, env, inst, valves, closes, tasks, last, guard>>

\* A call of close.
Close ==
    /\ inst = "ready"
    /\ LET r == close(session, ext, sessions, closes)
       IN  /\ sessions' = r.sessions
           /\ closes' = r.closes
    /\ exc' = "none"
    /\ UNCHANGED <<platform, env, inst, valves, session, ext, tasks, last, guard>>

\* __aenter__ catching the error of _ensure_session: the body runs all the same.
AEnter_enters_anyway ==
    /\ inst = "ready"
    /\ guard = "out"
    /\ CanEnsure
    /\ LET r == ensure_session(session, ext, sessions)
       IN  /\ session' = r.session
           /\ ext' = r.ext
           /\ sessions' = r.sessions
    /\ exc' = "none"
    /\ guard' = "in"
    /\ UNCHANGED <<platform, env, inst, valves, closes, tasks, last>>

\* `async with tool:` is entered: __aenter__.  When it raises, the body does
\* not run and __aexit__ is not called.
AEnter ==
    /\ inst = "ready"
    /\ guard = "out"
    /\ CanEnsure
    /\ LET r == ensure_session(session, ext, sessions)
       IN  /\ session' = r.session
           /\ ext' = r.ext
           /\ sessions' = r.sessions
           /\ exc' = IF r.raised THEN "RuntimeError" ELSE "none"
           /\ guard' = IF r.raised THEN "out" ELSE "in"
    /\ UNCHANGED <<platform, env, inst, valves, closes, tasks, last>>

\* __aexit__ that closes only when the body raised nothing.
AExit_skips_on_error(bodyRaised) ==
    /\ inst = "ready"
    /\ guard = "in"
    /\ LET r == IF bodyRaised THEN [sessions |-> sessions, closes |-> closes]
                ELSE close(session, ext, sessions, closes)
       IN  /\ sessions' = r.sessions
           /\ closes' = r.closes
    /\ guard' = "out"
    /\ exc' = IF bodyRaised THEN "BodyError" ELSE "none"
    /\ UNCHANGED <<platform, env, inst, valves, session, ext, tasks, last>>

\* The body of `async with tool:` ends, normally or by an exception: __aexit__.
\* It returns None, so an exception of the body goes on to the caller.
AExit(bodyRaised) ==
    /\ inst = "ready"
    /\ guard = "in"
    /\ LET r == close(session, ext, sessions, closes)
       IN  /\ sessions' = r.sessions
           /\ closes' = r.closes
    /\ guard' = "out"
    /\ exc' = IF bodyRaised THEN "BodyError" ELSE "none"
    /\ UNCHANGED <<platform, env, inst, valves, session, ext, tasks, last>>

\* The owner of a supplied session closes it.
OwnerClose ==
    /\ inst = "ready"
    /\ ext
    /\ Usable(session, sessions)
    /\ sessions' = [sessions EXCEPT ![session] = "closed"]
    /\ UNCHANGED <<platform, env, inst, valves, session, ext, closes, tasks, last,
                   guard, exc>>

\* The send opening a session of its own for every call.
SendStart_own_session(t, m) ==
    /\ inst = "ready"
    /\ tasks[t].pc = "idle"
    /\ HasUnborn(sessions)
    /\ session' = NewId(sessions)
    /\ sessions' = [sessions EXCEPT ![NewId(sessions)] = "open"]
    /\ tasks' = [tasks EXCEPT ![t] =
          [pc |-> "awaiting", sess |-> NewId(sessions), msg |-> m,
           req |-> BuildRequest(platform, valves, Truncate(platform, m)),
           posts |-> 1]]
    /\ UNCHANGED <<platform, env, inst, valves, ext, closes, guard, exc, last>>

\* Coroutine t calls the send with message m and runs to the await of the
\* round trip; when _ensure_session raises, the except clause ends the send.
SendStart(t, m) ==
    /\ inst = "ready"
    /\ tasks[t].pc = "idle"
    /\ CanEnsure
    /\ LET r == ensure_session(session, ext, sessions)
           h == Try(Throws("RuntimeError"))
       IN  IF r.raised
           THEN /\ last' = [kind |-> "ensure", status |-> 0, body |-> "none",
                            result |-> h.result, raised |-> h.raised, posts |-> 0,
                            failed_before |-> FailedBefore(last)]
                /\ UNCHANGED <<session, ext, sessions, tasks>>
           ELSE /\ session' = r.session
                /\ ext' = r.ext
                /\ sessions' = r.sessions
                /\ tasks' = [tasks EXCEPT ![t] =
                      [pc |-> "awaiting", sess |-> r.session, msg |-> m,
                       req |-> BuildRequest(platform, valves, Truncate(platform, m)),
                       posts |-> 1]]
                /\ UNCHANGED last
    /\ UNCHANGED <<platform, env, inst, valves, closes, guard, exc>>

\* The send posting once more after a failure.
SendFinish_retries(t, o) ==
    /\ tasks[t].pc = "awaiting"
    /\ LET r == Try(IF platform = "discord" THEN DiscordResponse(o)
                    ELSE TelegramResponse(o))
       IN  IF ~r.result /\ tasks[t].posts < 2
           THEN /\ tasks' = [tasks EXCEPT ![t].posts = @ + 1]
                /\ UNCHANGED last
           ELSE /\ last' = [kind |-> o.kind, status |-> o.status, body |-> o.body,
                            result |-> r.result, raised |-> r.raised,
                            posts |-> tasks[t].posts,
                            failed_before |-> FailedBefore(last)]
                /\ tasks' = [tasks EXCEPT ![t] = IdleTask]
    /\ UNCHANGED <<platform, env, inst, valves, session, ext, sessions, closes,
                   guard, exc>>

\* A round trip that never ends once the session it was posted on is closed.
SendFinish_hangs_when_closed(t, o) ==
    /\ tasks[t].pc = "awaiting"
    /\ sessions[tasks[t].sess] = "open"
    /\ LET r == Try(IF platform = "discord" THEN DiscordResponse(o)
                    ELSE TelegramResponse(o))
       IN  last' = [kind |-> o.kind, status |-> o.status, body |-> o.body,
                    result |-> r.result, raised |-> r.raised,
                    posts |-> tasks[t].posts,
                    failed_before |-> FailedBefore(last)]
    /\ tasks' = [tasks EXCEPT ![t] = IdleTask]
    /\ UNCHANGED <<platform, env, inst, valves, session, ext, sessions, closes,
                   guard, exc>>

\* The send with a circuit breaker: once a send has failed, later sends fail.
SendFinish_breaker(t, o) ==
    /\ tasks[t].pc = "awaiting"
    /\ LET r == Try(IF platform = "discord" THEN DiscordResponse(o)
                    ELSE TelegramResponse(o))
       IN  last' = [kind |-> o.kind, status |-> o.status, body |-> o.body,
                    result |-> r.result /\ ~FailedBefore(last), raised |-> r.raised,
                    posts |-> tasks[t].posts,
                    failed_before |-> FailedBefore(last)]
    /\ tasks' = [tasks EXCEPT ![t] = IdleTask]
    /\ UNCHANGED <<platform, env, inst, valves, session, ext, sessions, closes,
                   guard, exc>>

\* The round trip of coroutine t ends as o; the send returns.
SendFinish(t, o) ==
    /\ tasks[t].pc = "awaiting"
    /\ LET r == Try(IF platform = "discord" THEN DiscordResponse(o)
                    ELSE TelegramResponse(o))
       IN  last' = [kind |-> o.kind, status |-> o.status, body |-> o.body,
                    result |-> r.result, raised |-> r.raised,
                    posts |-> tasks[t].posts,
                    failed_before |-> FailedBefore(last)]
    /\ tasks' = [tasks EXCEPT ![t] = IdleTask]
    /\ UNCHANGED <<platform, env, inst, valves, session, ext, sessions, closes,
                   guard, exc>>

\* The messages of Spec: short ones, which no limit touches.
ShortMessages == { <<"h", "i">> }

Next ==
    \/ Construct
    \/ EnsureSession
    \/ Close
    \/ AEnter
    \/ \E b \in BOOLEAN : AExit(b)
    \/ OwnerClose
    \/ \E t \in Tasks, m \in ShortMessages : SendStart(t, m)
    \/ \E t \in Tasks, o \in Outcomes(platform) : SendFinish(t, o)

Spec == Init /\ [][Next]_vars

\* The transport ends every round trip: with a response or with an error.
TransportAnswers ==
    \A t \in Tasks : WF_vars(\E o \in Outcomes(platform) : SendFinish(t, o))

\* Sends and close() calls on a constructed instance, and the owner closing a
\* supplied session.
NextLive ==
    \/ Construct
    \/ Close
    \/ OwnerClose
    \/ \E t \in Tasks, m \in ShortMessages : SendStart(t, m)
    \/ \E t \in Tasks, o \in Outcomes(platform) : SendFinish(t, o)

\* The module is imported with a valid configuration in the environment.
InitValid == Init /\ ConfigValid(platform, env)

\* The same from a valid configuration, with a transport that answers every
\* request.
SpecLive == InitValid /\ [][NextLive]_vars /\ TransportAnswers

\* The messages of SpecPayload: Message(n) has n characters, character i being
\* i % 7; the lengths are 1 and the two around the platform's limit.
Message(n) == [i \in 1..n |-> i % 7]
DiscordMessages == { Message(n) : n \in {1, DiscordLimit, DiscordLimit + 1} }
TelegramMessages == { Message(n) : n \in {1, TelegramLimit, TelegramLimit + 1} }
LongMessages(p) == IF p = "discord" THEN DiscordMessages ELSE TelegramMessages

NextPayload ==
    \/ Construct
    \/ \E t \in Tasks, m \in LongMessages(platform) : SendStart(t, m)
    \/ \E t \in Tasks, o \in Outcomes(platform) : SendFinish(t, o)

\* Sends of long messages on an instance constructed from a valid configuration.
SpecPayload == InitValid /\ [][NextPayload]_vars

\* ================================================================== claims

\* C1: construction succeeds for every valid configuration and fails with a
\* configuration error for every configuration with a missing or empty required
\* field (or a Telegram chat id that is no integer), so that no instance exists
\* on which a send can be called and no transport call has been made.
C1_ConstructionValidates ==
    inst # "none" =>
        /\ inst = "ready" <=> ConfigValid(platform, env)
        /\ inst = "failed" =>
              /\ exc = "ValueError"
              /\ last.kind = "none"
              /\ \A t \in Tasks : tasks[t].pc = "idle"

\* Whether reading the response o raises inside the send.
ReadRaises(p, o) ==
    \/ o.body = "unreadable" /\ ~(p = "discord" /\ o.status = DiscordOkStatus)
    \/ p = "telegram" /\ o.status = TelegramOkStatus /\ o.body = "not_json"

\* C2: a send never lets an error escape to its caller: whatever the resource
\* and whatever the transport does, the send that returned last returned a
\* boolean, and it returned false when _ensure_session raised, when the post
\* raised ClientError or another exception, and when reading the response raised.
C2_SendNeverRaises ==
    /\ last.raised = "none"
    /\ last.result \in BOOLEAN
    /\ last.kind \in {"ensure", "ClientError", "Exception"} => last.result = FALSE
    /\ last.kind = "response" /\ ReadRaises(platform, last) => last.result = FALSE

C2_Witness ==
    /\ last.kind = "Exception"
    /\ last.result = FALSE
    /\ last.raised = "none"

\* C3: a Discord send that got a response returned true if and only if the
\* status of the response is exactly 204.
C3_DiscordSuccessIff204 ==
    platform = "discord" /\ last.kind = "response" =>
        (last.result = TRUE <=> last.status = 204)

C3_Witness ==
    /\ platform = "discord"
    /\ last.kind = "response"
    /\ last.status = 200
    /\ last.result = FALSE

\* C4: a Telegram send that got a response returned true if and only if the
\* status is 200 and the ok field of the parsed body is truthy; status 200 with
\* ok false or missing returned false, and so did every other status, whatever
\* the body.
C4_TelegramSuccessIff200AndOk ==
    platform = "telegram" /\ last.kind = "response" =>
        (last.result = TRUE <=> (last.status = 200 /\ last.body = "ok_true"))

C4_Witness ==
    /\ platform = "telegram"
    /\ last.kind = "response"
    /\ last.status = 200
    /\ last.body = "ok_false"
    /\ last.result = FALSE

\* The platform's length limit.
Limit(p) == IF p = "discord" THEN 2000 ELSE 4096

\* The message text inside a request.
ContentOf(p, req) == IF p = "discord" THEN req.json.content ELSE req.json.text

\* C5: the content of every request handed to the transport is the first M
\* characters of the message when the message is longer than the platform's
\* limit M, and the message itself otherwise; no send ends without a request
\* except the one whose _ensure_session raised (none is rejected for its length).
C5_TruncatesToLimit ==
    /\ \A t \in Tasks :
          tasks[t].pc = "awaiting" =>
              LET m == tasks[t].msg
                  c == ContentOf(platform, tasks[t].req)
                  M == Limit(platform)
              IN  IF Len(m) > M
                  THEN Len(c) = M /\ \A i \in 1..M : c[i] = m[i]
                  ELSE c = m
    /\ last.posts = 0 => last.kind \in {"none", "ensure"}

C5_Witness ==
    \E t \in Tasks :
        /\ tasks[t].pc = "awaiting"
        /\ Len(tasks[t].msg) = Limit(platform) + 1
        /\ Len(ContentOf(platform, tasks[t].req)) = Limit(platform)
\* C6: Tools never closes a session that was supplied to it: it has made no
\* close() call on it, and a supplied session that is open stays open in every
\* step except the one in which its owner closes it.
C6_BorrowedNeverClosed ==
    [][ /\ ext' => closes'[session'] = 0
        /\ (ext /\ Usable(session, sessions) /\ ~Usable(session', sessions'))
              => OwnerClose ]_vars

\* A supplied session is still open after a send returned true and the guard
\* was left by an exception (which ran close).
C6_Witness ==
    /\ ext
    /\ sessions[session] = "open"
    /\ last.result = TRUE
    /\ guard = "out"
    /\ exc = "BodyError"

\* C7: on an instance built without a session, after close() the session made
\* internally is closed (or none was ever made), and self.session stays absent
\* or closed in every step that is not _ensure_session, the start of a send or
\* the entry of the guard.
C7_OwnedClosedAfterRelease ==
    [][ (inst = "ready" /\ ~ext) =>
          /\ Close => ~Usable(session', sessions')
          /\ (~Usable(session, sessions) /\ Usable(session', sessions'))
                => \/ EnsureSession
                   \/ AEnter
                   \/ \E t \in Tasks, m \in ShortMessages : SendStart(t, m) ]_vars

\* A send was done, then close() closed the internal session.
C7_Witness ==
    /\ inst = "ready"
    /\ ~ext
    /\ last.posts = 1
    /\ session # None
    /\ sessions[session] = "closed"
    /\ closes[session] = 1
    /\ guard = "out"
    /\ exc = "none"

\* C8: a send called while the supplied session is closed ends at once: it
\* returns false and raises nothing, creates no session, leaves self.session as
\* it was and hands no request to the transport.
C8_ClosedBorrowedFailsFast ==
    [][ (inst = "ready" /\ ext /\ ~Usable(session, sessions)) =>
          \A t \in Tasks, m \in ShortMessages :
              SendStart(t, m) =>
                  /\ last'.kind = "ensure"
                  /\ last'.result = FALSE
                  /\ last'.raised = "none"
                  /\ last'.posts = 0
                  /\ session' = session
                  /\ sessions' = sessions
                  /\ tasks' = tasks ]_vars

C8_Witness ==
    /\ ext
    /\ sessions[session] = "closed"
    /\ last.kind = "ensure"
    /\ last.result = FALSE
    /\ \A t \in Tasks : tasks[t].pc = "idle"

\* C9: close() is idempotent: in every reachable state a second close() in a
\* row changes nothing the first left, Tools has called session.close() at most
\* once on every session, and a close() on an absent, closed or supplied
\* session calls it not at all.  (close has no raise statement: the model's
\* Close raises nothing.)
C9_ReleaseIdempotent ==
    inst = "ready" =>
        LET once == close(session, ext, sessions, closes)
            twice == close(session, ext, once.sessions, once.closes)
        IN  /\ twice = once
            /\ \A i \in SessionIds : closes[i] <= 1 /\ once.closes[i] <= 1
            /\ (ext \/ ~Usable(session, sessions)) => once.closes = closes

\* close() has closed the internal session; the next close() finds it closed.
C9_Witness ==
    /\ inst = "ready"
    /\ ~ext
    /\ session # None
    /\ sessions[session] = "closed"
    /\ closes[session] = 1

\* C10: entering `async with` runs _ensure_session and leaving it runs close(),
\* whether the body returned or raised: on an instance that owns its session
\* the session is open when the scope is entered and closed when the scope has
\* been left; on an instance with a supplied session leaving the scope closes
\* nothing.
C10_GuardEnsuresAndReleases ==
    [][ /\ (AEnter /\ guard' = "in") => Usable(session', sessions')
        /\ \A b \in BOOLEAN :
              AExit(b) =>
                  /\ guard' = "out"
                  /\ IF ext
                     THEN sessions' = sessions /\ closes' = closes
                     ELSE ~Usable(session', sessions') /\ closes'[session'] = 1 ]_vars

\* The body raised and the scope's exit closed the internal session.
C10_Witness ==
    /\ inst = "ready"
    /\ ~ext
    /\ guard = "out"
    /\ exc = "BodyError"
    /\ session # None
    /\ sessions[session] = "closed"
    /\ closes[session] = 1
\* Whether the response o is the platform's success response.
IsSuccess(p, o) ==
    /\ o.kind = "response"
    /\ IF p = "discord" THEN o.status = 204
       ELSE o.status = 200 /\ o.body = "ok_true"

\* The step in which the send of coroutine t returns: last' holds what it got.
Returned(t) == tasks[t].pc = "awaiting" /\ tasks'[t].pc = "idle"

\* C11: no circuit breaking: on an instance that owns its session, after sends
\* that returned false, a send still reaches the transport, and it returns true
\* exactly when its own response is the success response.
C11_NoCircuitBreaking ==
    [][ (inst = "ready" /\ ~ext /\ FailedBefore(last)) =>
          \A t \in Tasks :
              /\ \A m \in ShortMessages :
                    SendStart(t, m) => tasks'[t].pc = "awaiting"
              /\ Returned(t) =>
                    /\ last'.raised = "none"
                    /\ last'.result = IsSuccess(platform, last') ]_vars

\* A send returned true after an earlier send had returned false.
C11_Witness ==
    /\ inst = "ready"
    /\ ~ext
    /\ last.failed_before
    /\ last.kind = "response"
    /\ last.result = TRUE

\* C12 as stated: a send on an instance whose supplied session is closed
\* raises the RuntimeError of _ensure_session to its caller.
C12_SendRaisesResourceError ==
    last.kind = "ensure" => last.raised = "RuntimeError"

\* C12 as amended: the RuntimeError of _ensure_session for a closed supplied
\* session reaches the caller of _ensure_session itself and of the guard's
\* entry, and a send catches it and returns false.
C12_ResourceErrorCaughtBySend ==
    [][ (inst = "ready" /\ ext /\ ~Usable(session, sessions)) =>
          /\ EnsureSession => exc' = "RuntimeError"
          /\ AEnter => exc' = "RuntimeError"
          /\ \A t \in Tasks, m \in ShortMessages :
                SendStart(t, m) =>
                    /\ last'.kind = "ensure"
                    /\ last'.raised = "none"
                    /\ last'.result = FALSE
                    /\ exc' = exc ]_vars

\* _ensure_session raised to its caller, and a send returned false for the
\* same closed supplied session.
C12_Witness ==
    /\ ext
    /\ sessions[session] = "closed"
    /\ exc = "RuntimeError"
    /\ last.kind = "ensure"
    /\ last.raised = "none"
    /\ last.result = FALSE

\* C13: _ensure_session leaves a usable session or raises, and is idempotent.
\* With an open session it changes nothing; with none or a closed one, on an
\* instance that owns its session, it makes exactly one new open session (such
\* an instance has no session before its first use); it raises if and only if
\* the session was supplied and is closed; when it returns, self.session is
\* open, and a second call in a row makes nothing.
C13_EnsureUsableOrFails ==
    (inst = "ready" /\ CanEnsure) =>
        LET r == ensure_session(session, ext, sessions)
            again == ensure_session(r.session, r.ext, r.sessions)
            made == { i \in SessionIds : sessions[i] = "unborn" /\ r.sessions[i] # "unborn" }
        IN  /\ Usable(session, sessions) =>
                  ~r.raised /\ r.session = session /\ r.sessions = sessions
            /\ (~Usable(session, sessions) /\ ~ext) =>
                  /\ ~r.raised
                  /\ made = {r.session}
                  /\ \A i \in SessionIds \ made : r.sessions[i] = sessions[i]
            /\ r.raised <=> (ext /\ ~Usable(session, sessions))
            /\ ~r.raised => /\ Usable(r.session, r.sessions)
                            /\ again = r
            /\ (~ext /\ session = None) => \A i \in SessionIds : sessions[i] = "unborn"

\* The first internal session was closed by close(), and _ensure_session made
\* a second one, which is open.
C13_Witness ==
    /\ inst = "ready"
    /\ ~ext
    /\ session = 2
    /\ sessions[2] = "open"
    /\ sessions[1] = "closed"
    /\ closes[1] = 1
\* The sessions that exist.
Born == { i \in SessionIds : sessions[i] # "unborn" }

\* C14: sends that overlap on an instance that owns its session and started
\* with none need no lock: as long as close() has closed nothing, one session
\* has been made at most and every request in flight was posted on it, and a
\* send that returns leaves the other sends and the session alone and returns
\* what its own response says.
C14_ConcurrentSendsShareOneSession ==
    [][ /\ (inst' = "ready" /\ ~ext' /\ \A i \in SessionIds : closes'[i] = 0) =>
              /\ Cardinality({ i \in SessionIds : sessions'[i] # "unborn" }) <= 1
              /\ \A t \in Tasks :
                    tasks'[t].pc = "awaiting" =>
                        tasks'[t].sess = session' /\ sessions'[session'] = "open"
        /\ \A t \in Tasks :
              Returned(t) =>
                  /\ last'.result = IsSuccess(platform, last')
                  /\ \A u \in Tasks \ {t} : tasks'[u] = tasks[u]
                  /\ session' = session
                  /\ sessions' = sessions ]_vars

\* Two sends are in flight at once on the one session that was made.
C14_Witness ==
    /\ inst = "ready"
    /\ ~ext
    /\ Cardinality(Born) = 1
    /\ \E t, u \in Tasks :
          /\ t # u
          /\ tasks[t].pc = "awaiting"
          /\ tasks[u].pc = "awaiting"
          /\ tasks[t].sess = session
          /\ tasks[u].sess = session
\* C15: with a transport that ends every round trip, every send that was
\* started returns, also when close() is called while the send awaits the
\* round trip.
C15_SendRunsToCompletion ==
    \A t \in Tasks : (tasks[t].pc = "awaiting") ~> (tasks[t].pc = "idle")

\* close() has closed the session on which a send is still in flight.
C15_Witness ==
    \E t \in Tasks :
        /\ tasks[t].pc = "awaiting"
        /\ ~ext
        /\ sessions[tasks[t].sess] = "closed"
        /\ closes[tasks[t].sess] = 1
\* C16: one open session at most: on a constructed instance every open session
\* is self.session (no open session is dropped), and a session is made only in
\* a step that starts with self.session absent or closed, on an instance that
\* owns its session.
C16_AtMostOneOpenSession ==
    [][ inst' = "ready" =>
          /\ \A i \in SessionIds : sessions'[i] = "open" => i = session'
          /\ \A i \in SessionIds :
                (sessions[i] = "unborn" /\ sessions'[i] # "unborn") =>
                    ~ext /\ ~Usable(session, sessions) ]_vars

\* The third internal session is open; the two before it were closed by
\* close() before they were replaced.
C16_Witness ==
    /\ inst = "ready"
    /\ ~ext
    /\ session = 3
    /\ sessions = [i \in SessionIds |-> IF i < 3 THEN "closed"
                                         ELSE IF i = 3 THEN "open" ELSE "unborn"]
    /\ closes[1] = 1
    /\ closes[2] = 1

\* C17: once the instance is constructed, no step changes
\* _session_externally_managed or the configuration; an instance with a
\* supplied session refers to that session (session 1) in every state, never to
\* none and never to another.
C17_OwnershipAndConfigFixed ==
    [][ inst = "ready" =>
          /\ inst' = "ready"
          /\ ext' = ext
          /\ valves' = valves
          /\ valves = env
          /\ ext => (session = 1 /\ session' = 1) ]_vars

\* A send was posted on the supplied session, which its owner then closed;
\* self.session still is that session.
C17_Witness ==
    /\ inst = "ready"
    /\ ext
    /\ session = 1
    /\ sessions[1] = "closed"
    /\ closes[1] = 0
    /\ last.posts = 1
    /\ valves = env

\* C18: a send posts once at most: once when _ensure_session returned, never
\* when it raised; a failed response or an error of the transport ends the send
\* without a second post; and no step of a send closes a session.
C18_OnePostPerSend ==
    [][ \A t \in Tasks :
          /\ \A m \in ShortMessages :
                SendStart(t, m) =>
                    /\ closes' = closes
                    /\ \A i \in SessionIds : sessions[i] = "open" => sessions'[i] = "open"
                    /\ IF ensure_session(session, ext, sessions).raised
                       THEN tasks' = tasks /\ last'.posts = 0
                       ELSE tasks'[t].pc = "awaiting" /\ tasks'[t].posts = 1
          /\ tasks'[t].posts <= 1
          /\ (tasks[t].pc = "awaiting" /\ tasks'[t] # tasks[t]) =>
                /\ Returned(t)
                /\ closes' = closes
                /\ sessions' = sessions
                /\ last'.posts = 1
                /\ last'.kind \in {"response", "ClientError", "Exception"} ]_vars

\* A send ended by an error of the transport after its one post.
C18_Witness ==
    /\ last.kind = "ClientError"
    /\ last.posts = 1
    /\ last.result = FALSE
    /\ \A t \in Tasks : tasks[t].pc = "idle"

\* C19: entering the guard while the supplied session is closed raises
\* RuntimeError to the caller: the scope is not entered (so its body does not
\* run and __aexit__, hence close, is not called), no send is made, and no
\* session is made or closed.
C19_GuardEntryRaisesOnClosedBorrowed ==
    [][ (inst = "ready" /\ ext /\ ~Usable(session, sessions) /\ AEnter) =>
          /\ exc' = "RuntimeError"
          /\ guard' = "out"
          /\ session' = session
          /\ sessions' = sessions
          /\ closes' = closes
          /\ tasks' = tasks
          /\ last' = last ]_vars

\* The entry raised on a closed supplied session: nothing was sent or closed.
C19_Witness ==
    /\ inst = "ready"
    /\ ext
    /\ sessions[session] = "closed"
    /\ exc = "RuntimeError"
    /\ guard = "out"
    /\ last.kind = "none"
    /\ \A i \in SessionIds : closes[i] = 0
    /\ \A t \in Tasks : tasks[t].pc = "idle"
====
